---------------------------- MODULE Spec2Model ----------------------------
(***************************************************************************)
(* Model of vertMatch.py: the k-d tree (buildKdTree, nearestNeighbor,      *)
(* closerDistance, distanceSquare) and the vertMatch command (doIt,        *)
(* redoIt, undoIt) acting on the world-space vertex positions of the       *)
(* selected component groups.                                              *)
(*                                                                         *)
(* A point is a triple <<x, y, z>> of integers (small integers are exact   *)
(* in floating point, so the arithmetic of the code is reproduced          *)
(* exactly).  Python's None is the empty tuple.  A tree node is the record *)
(* [point, negative, positive] of the dict built by buildKdTree.           *)
(***************************************************************************)
EXTENDS Integers, Sequences, FiniteSets

VARIABLES
    \* ---- the k-d tree functions applied to drawn inputs
    pc,             \* "init" | "built" | "queried" | "cd" | "cdDone" | "cmd"
    points,         \* argument of buildKdTree
    tree,           \* buildKdTree(points)
    in_point,       \* argument of nearestNeighbor
    nearest,        \* nearestNeighbor(tree, in_point)
    cdArgs,         \* <<pivot, p1, p2>> given to closerDistance
    cdResult,       \* closerDistance(pivot, p1, p2)
    \* ---- the command object and the scene it acts on
    groups,         \* world positions of the selected groups; groups[1] is the first
    iter_components,\* self.iter_components: None or MItSelectionList
    mirror,         \* self.mirror
    initialState,   \* self.initialState
    tree_ls,        \* redoIt's tree_ls at the time buildKdTree was called
    lastOp,         \* "none" | "doIt" | "redoIt" | "undoIt"
    outcome,        \* "ok" | "error" (the call raised)
    preMatch,       \* groups[1] when the most recent redoIt body started
    nnOnNone,       \* the most recent redoIt body passed None to nearestNeighbor
    matches         \* number of redoIt bodies run so far

kdVars == <<pc, points, tree, in_point, nearest, cdArgs, cdResult>>
cmdVars == <<groups, iter_components, mirror, initialState, tree_ls, lastOp,
             outcome, preMatch, nnOnNone, matches>>
vars == <<pc, points, tree, in_point, nearest, cdArgs, cdResult,
          groups, iter_components, mirror, initialState, tree_ls, lastOp,
          outcome, preMatch, nnOnNone, matches>>

None == <<>>

\* om2.MItSelectionList(sel), positioned at the first group between calls
MItSelectionList == <<"MItSelectionList">>

\* ------------------------------------------------------------------ bounds
MaxPts == 4
MaxTargets == 2
MaxRefPts == 2
MaxMatches == 2

\* coordinates of the points given to the k-d tree functions
KdCoords == {0, 1}
KdGrid == {<<x, y, z>> : x \in KdCoords, y \in KdCoords, z \in KdCoords}

\* world positions the scene's vertices start from
SceneGrid == {<<-1, 0, 0>>, <<0, 0, 0>>, <<1, 0, 0>>, <<-1, 1, 0>>}

RECURSIVE SeqsUpTo(_, _)
SeqsUpTo(S, n) ==
    IF n = 0 THEN {<<>>}
    ELSE LET shorter == SeqsUpTo(S, n - 1)
         IN  shorter \cup {Append(s, e) : s \in {t \in shorter : Len(t) = n - 1}, e \in S}

Range(s) == {s[i] : i \in DOMAIN s}
Count(s, p) == Cardinality({i \in DOMAIN s : s[i] = p})

\* ------------------------------------------------------- the k-d tree code
\* point[axis], axis counted from 0 as in the code
coord(point, axis) == point[axis + 1]

\* mutant of sorted: the points are left in their input order
sorted_unsorted(pts, axis) == pts

\* sorted(points, key=lambda point: point[axis]): a stable sort
insort(s, p, axis) ==
    LET k == Cardinality({i \in DOMAIN s : coord(s[i], axis) <= coord(p, axis)})
    IN  SubSeq(s, 1, k) \o <<p>> \o SubSeq(s, k + 1, Len(s))

RECURSIVE sorted(_, _)
sorted(pts, axis) ==
    IF pts = <<>> THEN <<>>
    ELSE insort(sorted(SubSeq(pts, 1, Len(pts) - 1), axis), pts[Len(pts)], axis)

\* sorted_points[n / 2]
medianPoint(sorted_points, n) == sorted_points[(n \div 2) + 1]

\* mutant of negativeSlice: the slice stops one element early
negativeSlice_short(sorted_points, n) == SubSeq(sorted_points, 1, (n \div 2) - 1)

\* sorted_points[:n / 2]
negativeSlice(sorted_points, n) == SubSeq(sorted_points, 1, n \div 2)

\* sorted_points[n / 2 + 1:]
positiveSlice(sorted_points, n) == SubSeq(sorted_points, (n \div 2) + 2, n)

RECURSIVE buildKdTree(_, _)
buildKdTree(pts, depth) ==
    LET n == Len(pts)
    IN  IF n <= 0 THEN None
        ELSE LET axis == depth % 3
                 sorted_points == sorted(pts, axis)
             IN  [point    |-> medianPoint(sorted_points, n),
                  negative |-> buildKdTree(negativeSlice(sorted_points, n), depth + 1),
                  positive |-> buildKdTree(positiveSlice(sorted_points, n), depth + 1)]

distanceSquare(point1, point2) ==
    LET local_p == <<point1[1] - point2[1], point1[2] - point2[2], point1[3] - point2[3]>>
    IN  local_p[1] * local_p[1] + local_p[2] * local_p[2] + local_p[3] * local_p[3]

\* mutant of closerDistance: an exact tie goes to p1
closerDistance_tieFirst(pivot, p1, p2) ==
    IF p1 = None THEN p2
    ELSE IF p2 = None THEN p1
    ELSE IF distanceSquare(pivot, p1) <= distanceSquare(pivot, p2) THEN p1 ELSE p2

\* mutant of closerDistance: the comparison is turned around
closerDistance_farther(pivot, p1, p2) ==
    IF p1 = None THEN p2
    ELSE IF p2 = None THEN p1
    ELSE IF distanceSquare(pivot, p1) > distanceSquare(pivot, p2) THEN p1 ELSE p2

closerDistance(pivot, p1, p2) ==
    IF p1 = None THEN p2
    ELSE IF p2 = None THEN p1
    ELSE LET d1 == distanceSquare(pivot, p1)
             d2 == distanceSquare(pivot, p2)
         IN  IF d1 < d2 THEN p1 ELSE p2

\* the branch the query descends into first, and the other one
next_branch(t, q, axis) ==
    IF coord(q, axis) < coord(t.point, axis) THEN t.negative ELSE t.positive

opposite_branch(t, q, axis) ==
    IF coord(q, axis) < coord(t.point, axis) THEN t.positive ELSE t.negative

\* mutant of searchOpposite: the comparison is turned around
searchOpposite_flipped(t, q, axis, best) ==
    distanceSquare(q, best) <
        (coord(q, axis) - coord(t.point, axis)) * (coord(q, axis) - coord(t.point, axis))

\* distanceSquare(in_point, nearest) > (in_point[axis] - tree['point'][axis]) ** 2
searchOpposite(t, q, axis, best) ==
    distanceSquare(q, best) >
        (coord(q, axis) - coord(t.point, axis)) * (coord(q, axis) - coord(t.point, axis))

RECURSIVE nearestNeighbor(_, _, _)
\* the value of `nearest` after line 72
firstFold(t, q, depth) ==
    closerDistance(q, nearestNeighbor(next_branch(t, q, depth % 3), q, depth + 1), t.point)

nearestNeighbor(t, q, depth) ==
    IF t = None THEN None
    ELSE LET axis == depth % 3
             first == firstFold(t, q, depth)
         IN  IF searchOpposite(t, q, axis, first)
             THEN closerDistance(q, nearestNeighbor(opposite_branch(t, q, axis), q, depth + 1), first)
             ELSE first

\* the points stored in a tree, negative subtree first
RECURSIVE treePoints(_)
treePoints(t) ==
    IF t = None THEN <<>>
    ELSE treePoints(t.negative) \o <<t.point>> \o treePoints(t.positive)

\* ------------------------------------ the k-d tree functions on drawn inputs
KdIdle ==
    /\ groups = <<>> /\ iter_components = None /\ mirror = FALSE
    /\ initialState = <<>> /\ tree_ls = <<>> /\ lastOp = "none" /\ outcome = "ok"
    /\ preMatch = <<>> /\ nnOnNone = FALSE /\ matches = 0

InitKd ==
    /\ KdIdle
    /\ tree = None /\ in_point = None /\ nearest = None /\ cdResult = None
    /\ \/ /\ pc = "init"
          /\ points \in SeqsUpTo(KdGrid, MaxPts)
          /\ cdArgs = None
       \/ /\ pc = "cd"
          /\ points = <<>>
          /\ cdArgs \in {<<pivot, p1, p2>> : pivot \in KdGrid,
                                             p1 \in KdGrid \cup {None},
                                             p2 \in KdGrid \cup {None}}

Build ==
    /\ pc = "init"
    /\ tree' = buildKdTree(points, 0)
    /\ pc' = "built"
    /\ UNCHANGED <<points, in_point, nearest, cdArgs, cdResult>>
    /\ UNCHANGED cmdVars

Query(q) ==
    /\ pc = "built"
    /\ in_point' = q
    /\ nearest' = nearestNeighbor(tree, q, 0)
    /\ pc' = "queried"
    /\ UNCHANGED <<points, tree, cdArgs, cdResult>>
    /\ UNCHANGED cmdVars

Closer ==
    /\ pc = "cd"
    /\ cdResult' = closerDistance(cdArgs[1], cdArgs[2], cdArgs[3])
    /\ pc' = "cdDone"
    /\ UNCHANGED <<points, tree, in_point, nearest, cdArgs>>
    /\ UNCHANGED cmdVars

NextKd ==
    \/ Build
    \/ \E q \in KdGrid : Query(q)
    \/ Closer

SpecKd == InitKd /\ [][NextKd]_vars

\* ------------------------------------------------------ the vertMatch command
\* point[0] *= -1
mirrored(point) == <<-point[1], point[2], point[3]>>

mirroredAll(pts) == [i \in DOMAIN pts |-> mirrored(pts[i])]

\* the vertices of groups from..Len(gs), in iteration order
RECURSIVE vertsFrom(_, _)
vertsFrom(gs, from) ==
    IF from > Len(gs) THEN <<>> ELSE gs[from] \o vertsFrom(gs, from + 1)

\* redoIt's first loop: what the first group contributes to tree_ls
firstGroupPoints(gs, m) == IF m THEN mirroredAll(gs[1]) ELSE <<>>

\* mutant of laterGroupPoints: the mirror flag negates x in the later groups
laterGroupPoints_mirrored(gs, m) ==
    IF m THEN mirroredAll(vertsFrom(gs, 2)) ELSE vertsFrom(gs, 2)

\* redoIt's first loop: what the later groups contribute to tree_ls
laterGroupPoints(gs, m) == vertsFrom(gs, 2)

collectTreeList(gs, m) == firstGroupPoints(gs, m) \o laterGroupPoints(gs, m)

\* mutant of skipped: no vertex is skipped
skipped_never(input_point, m) == FALSE

\* redoIt's second loop: `if self.mirror: if input_point[0] >= 0: continue`
skipped(input_point, m) == m /\ input_point[1] >= 0

\* the first vertex of the second loop whose closest point is None, 0 if none:
\* setPosition(None, ...) raises there and ends the call
raisesAt(targets, m, vert_tree) ==
    LET bad == {i \in DOMAIN targets : ~skipped(targets[i], m) /\ vert_tree = None}
    IN  IF bad = {} THEN 0 ELSE CHOOSE i \in bad : \A j \in bad : i <= j

\* the first group's positions after the second loop
matchedTargets(targets, m, vert_tree) ==
    IF raisesAt(targets, m, vert_tree) # 0 THEN targets
    ELSE [i \in DOMAIN targets |->
             IF skipped(targets[i], m) THEN targets[i]
             ELSE nearestNeighbor(vert_tree, targets[i], 0)]

\* the entries the second loop appends to self.initialState
savedForUndo(targets, m, vert_tree) ==
    IF raisesAt(targets, m, vert_tree) # 0
    THEN SubSeq(targets, 1, raisesAt(targets, m, vert_tree))
    ELSE targets

\* self.initialState after the second loop
initialStateAfter(old, targets, m, vert_tree) == old \o savedForUndo(targets, m, vert_tree)

\* the body of redoIt run with mirror flag m; op is the handler that runs it
redoItBody(m, op) ==
    \E targets \in {groups[1]} :
    \E ls \in {collectTreeList(groups, m)} :
    \E vert_tree \in {buildKdTree(ls, 0)} :
        /\ tree_ls' = ls
        /\ preMatch' = targets
        /\ groups' = [groups EXCEPT ![1] = matchedTargets(targets, m, vert_tree)]
        /\ initialState' = initialStateAfter(initialState, targets, m, vert_tree)
        /\ nnOnNone' = (raisesAt(targets, m, vert_tree) # 0)
        /\ outcome' = IF raisesAt(targets, m, vert_tree) # 0 THEN "error" ELSE "ok"
        /\ matches' = matches + 1
        /\ lastOp' = op

\* a call that raises before it changes anything
raised(op) ==
    /\ outcome' = "error"
    /\ lastOp' = op
    /\ UNCHANGED <<groups, iter_components, mirror, initialState, tree_ls,
                   preMatch, nnOnNone, matches>>

\* doIt(args): flag is "unset" or the boolean given with -m
doIt(flag) ==
    /\ pc = "cmd"
    /\ matches < MaxMatches
    /\ iter_components' = MItSelectionList
    /\ mirror' = IF flag = "unset" THEN mirror ELSE (flag = "true")
    /\ redoItBody(mirror', "doIt")
    /\ UNCHANGED kdVars

redoIt ==
    /\ pc = "cmd"
    /\ matches < MaxMatches
    /\ IF iter_components = None
       THEN raised("redoIt")
       ELSE /\ redoItBody(mirror, "redoIt")
            /\ UNCHANGED <<iter_components, mirror>>
    /\ UNCHANGED kdVars

\* the first group's positions after undoIt's loop
restoredTargets(targets, saved) ==
    [i \in DOMAIN targets |-> IF i <= Len(saved) THEN saved[i] ELSE targets[i]]

undoIt ==
    /\ pc = "cmd"
    /\ IF iter_components = None
       THEN raised("undoIt")
       ELSE /\ groups' = [groups EXCEPT ![1] = restoredTargets(groups[1], initialState)]
            /\ outcome' = IF Len(initialState) < Len(groups[1]) THEN "error" ELSE "ok"
            /\ lastOp' = "undoIt"
            /\ UNCHANGED <<iter_components, mirror, initialState, tree_ls,
                           preMatch, nnOnNone, matches>>
    /\ UNCHANGED kdVars

\* the groups selected after the first: none, one, or two of which the first
\* holds one vertex; at most MaxRefPts vertices between them
RefGroups ==
    {<<>>} \cup
    {<<r>> : r \in SeqsUpTo(SceneGrid, MaxRefPts)} \cup
    {<<SubSeq(r, 1, 1), SubSeq(r, 2, Len(r))>> :
        r \in SeqsUpTo(SceneGrid, MaxRefPts) \ {<<>>}}

Init ==
    /\ pc = "cmd"
    /\ points = <<>> /\ tree = None /\ in_point = None /\ nearest = None
    /\ cdArgs = None /\ cdResult = None
    /\ groups \in {<<t>> \o r : t \in SeqsUpTo(SceneGrid, MaxTargets), r \in RefGroups}
    /\ iter_components = None
    /\ mirror = FALSE
    /\ initialState = <<>>
    /\ tree_ls = <<>>
    /\ lastOp = "none"
    /\ outcome = "ok"
    /\ preMatch = <<>>
    /\ nnOnNone = FALSE
    /\ matches = 0

Next ==
    \/ \E flag \in {"unset", "true", "false"} : doIt(flag)
    \/ redoIt
    \/ undoIt

Spec == Init /\ [][Next]_vars

\* ------------------------------------------------ claims on the k-d tree

\* C1: for a non-empty point sequence, nearestNeighbor(buildKdTree(points), q)
\* is one of the input points and no input point is strictly closer to q
\* (the pruning never discards the true minimum).
C1_NearestIsMinimal ==
    (pc = "queried" /\ points # <<>>) =>
        /\ nearest \in Range(points)
        /\ \A i \in DOMAIN points :
               distanceSquare(in_point, nearest) <= distanceSquare(in_point, points[i])

\* a query on four points, two of them equal, in which the root's opposite
\* branch holds points and is pruned
C1_Witness ==
    /\ pc = "queried"
    /\ Len(points) = 4
    /\ \E i, j \in DOMAIN points : i # j /\ points[i] = points[j]
    /\ opposite_branch(tree, in_point, 0) # None
    /\ ~searchOpposite(tree, in_point, 0, firstFold(tree, in_point, 0))

\* C2: the points stored in buildKdTree(points) are the input points with
\* their multiplicities, and the empty sequence gives the empty tree.
C2_BuildKeepsMultiset ==
    (pc \in {"built", "queried"}) =>
        /\ Len(treePoints(tree)) = Len(points)
        /\ \A p \in Range(points) \cup Range(treePoints(tree)) :
               Count(treePoints(tree), p) = Count(points, p)
        /\ (points = <<>> <=> tree = None)

\* a tree built from four points of which two are equal
C2_Witness ==
    /\ pc = "built"
    /\ Len(points) = 4
    /\ \E i, j \in DOMAIN points : i # j /\ points[i] = points[j]
    /\ \E i, j \in DOMAIN points : points[i] # points[j]

\* every node splits its subtrees on axis depth mod 3; `strict` asks the
\* negative side to be strictly below the node's point
RECURSIVE Partitioned(_, _, _)
Partitioned(t, depth, strict) ==
    \/ t = None
    \/ LET axis == depth % 3
           c == coord(t.point, axis)
       IN  /\ \A p \in Range(treePoints(t.negative)) :
                  IF strict THEN coord(p, axis) < c ELSE coord(p, axis) <= c
           /\ \A p \in Range(treePoints(t.positive)) : coord(p, axis) >= c
           /\ Partitioned(t.negative, depth + 1, strict)
           /\ Partitioned(t.positive, depth + 1, strict)

\* C8 as stated: at every node the negative subtree is strictly below the
\* node's point on the split axis and the positive subtree is at or above it.
C8_StrictPartition ==
    (pc \in {"built", "queried"}) => Partitioned(tree, 0, TRUE)

\* C8 as amended: at every node the negative subtree is at or below the
\* node's point on the split axis (equal values may fall on either side) and
\* the positive subtree is at or above it.
C8_WeakPartition ==
    (pc \in {"built", "queried"}) => Partitioned(tree, 0, FALSE)

\* a tree whose root has, in its negative subtree, a point equal to the
\* root's point on the split axis and, in its positive subtree, a greater one
C8_Witness ==
    /\ pc = "built"
    /\ tree # None
    /\ \E p \in Range(treePoints(tree.negative)) : coord(p, 0) = coord(tree.point, 0)
    /\ \E p \in Range(treePoints(tree.positive)) : coord(p, 0) > coord(tree.point, 0)

\* the result of the root's near branch in the query of the current state
nearResult == nearestNeighbor(next_branch(tree, in_point, 0), in_point, 1)

\* an absent candidate loses to a present one
AbsentLoses ==
    pc = "cdDone" =>
        /\ (cdArgs[2] = None => cdResult = cdArgs[3])
        /\ (cdArgs[3] = None => cdResult = cdArgs[2])

BothPresentTie ==
    /\ cdArgs[2] # None
    /\ cdArgs[3] # None
    /\ distanceSquare(cdArgs[1], cdArgs[2]) = distanceSquare(cdArgs[1], cdArgs[3])

NearTiesWithNode ==
    /\ pc = "queried"
    /\ tree # None
    /\ nearResult # None
    /\ distanceSquare(in_point, nearResult) = distanceSquare(in_point, tree.point)

\* C9 as stated: on an exact tie closerDistance returns p1, so the near-branch
\* result is kept over the node's point; None loses to a present candidate.
C9_TieKeepsFirst ==
    /\ AbsentLoses
    /\ (pc = "cdDone" /\ BothPresentTie) => cdResult = cdArgs[2]
    /\ NearTiesWithNode =>
           \/ nearest = nearResult
           \/ distanceSquare(in_point, nearest) < distanceSquare(in_point, nearResult)

\* C9 as amended: on an exact tie closerDistance returns p2 (the second
\* argument), so in nearestNeighbor the node's own point is kept over a
\* near-branch result that ties with it; None loses to a present candidate.
C9_TieKeepsSecond ==
    /\ AbsentLoses
    /\ (pc = "cdDone" /\ BothPresentTie) => cdResult = cdArgs[3]
    /\ NearTiesWithNode =>
           \/ nearest = tree.point
           \/ distanceSquare(in_point, nearest) < distanceSquare(in_point, tree.point)

\* closerDistance was given two different points at the same distance
C9_Witness ==
    /\ pc = "cdDone"
    /\ BothPresentTie
    /\ cdArgs[2] # cdArgs[3]

\* ------------------------------------------------ claims on the command

\* the last call was doIt or redoIt and it ran the body of redoIt
Matched ==
    \/ lastOp = "doIt"
    \/ lastOp = "redoIt" /\ iter_components # None

\* the vertices of the groups after the first (never written by the command)
referencePoints == vertsFrom(groups, 2)

SameMultiset(s, t) ==
    /\ Len(s) = Len(t)
    /\ \A p \in Range(s) \cup Range(t) : Count(s, p) = Count(t, p)

C4_UndoRestoresPreMatch ==
    (lastOp = "undoIt" /\ iter_components # None) => groups[1] = preMatch

\* C5: with mirror true a match leaves every target point with x >= 0 where
\* it was.
C5_MirrorSkipsNonNegativeX ==
    (Matched /\ mirror) =>
        \A i \in DOMAIN preMatch : preMatch[i][1] >= 0 => groups[1][i] = preMatch[i]

\* a mirrored match that moved a point and met a point with x = 0
C5_Witness ==
    /\ Matched
    /\ mirror
    /\ \E i \in DOMAIN preMatch : groups[1][i] # preMatch[i]
    /\ \E i \in DOMAIN preMatch : preMatch[i][1] = 0

\* C6: a match run directly after a match, with the same mirror flag, moves
\* no target point.
C6_RepeatedMatchIdempotent ==
    [][(Matched /\ outcome = "ok" /\ matches' = matches + 1 /\ mirror' = mirror)
          => groups'[1] = groups[1]]_vars

\* a mirrored redoIt run directly after a doIt that had moved a target point
C6_Witness ==
    /\ lastOp = "redoIt"
    /\ mirror
    /\ matches = 2
    /\ outcome = "ok"
    /\ Len(initialState) = 2 * Len(groups[1])
    /\ SubSeq(initialState, 1, Len(groups[1])) # preMatch
    /\ SubSeq(initialState, Len(groups[1]) + 1, 2 * Len(groups[1])) = preMatch

\* C7: a match whose reference groups hold no point ends in an error, moves
\* no target point and never gives an empty tree to nearestNeighbor.
C7_EmptyReferenceRejected ==
    (Matched /\ referencePoints = <<>>) =>
        /\ outcome = "error"
        /\ groups[1] = preMatch
        /\ ~nnOnNone

\* C10: after a match the snapshot holds one entry per target point, entry i
\* being the position of target point i immediately before that match.
C10_SnapshotIsPreMatch ==
    (Matched /\ outcome = "ok") => initialState = preMatch

=============================================================================
